---- MODULE Spec2Model ----
(***************************************************************************)
(* Model of excel_to_ics.py: a spreadsheet is read, its column headers are *)
(* normalised and validated, and every row is turned into one calendar     *)
(* (one event, one alarm) that is written to its own .ics file.            *)
(*                                                                         *)
(* Text is modelled as a sequence of one-character strings, so that        *)
(* strip(), lower(), re.sub(), re.split() and the f-strings are computed   *)
(* character by character as the code computes them.                       *)
(***************************************************************************)
EXTENDS Integers, Sequences, FiniteSets, TLC

VARIABLES excel, df, tzone, alert_minutes, pc, idx, outdir, files, wrote, error, arg, ret

vars == <<excel, df, tzone, alert_minutes, pc, idx, outdir, files, wrote, error, arg, ret>>

(***************************************************************************)
(* Bounds of the model.                                                    *)
(***************************************************************************)
MaxRows == 3
MaxTitleLen == 4
MaxIndex == 11
MaxCellLen == 5
MaxAlert == 2
MaxDay == 2

(***************************************************************************)
(* Characters and text.                                                    *)
(***************************************************************************)
UpperCase == <<"A", "B", "C", "D", "E", "F", "G", "H", "I", "J", "K", "L", "M",
               "N", "O", "P", "Q", "R", "S", "T", "U", "V", "W", "X", "Y", "Z">>
LowerCase == <<"a", "b", "c", "d", "e", "f", "g", "h", "i", "j", "k", "l", "m",
               "n", "o", "p", "q", "r", "s", "t", "u", "v", "w", "x", "y", "z">>
DigitChars == <<"0", "1", "2", "3", "4", "5", "6", "7", "8", "9">>

\* The characters of the model in code point order (the order sorted() uses).
CodePointOrder == <<"\t", " ", "!", ",", "-", ".">> \o DigitChars \o <<":">>
                  \o UpperCase \o <<"_">> \o LowerCase

Range(s) == {s[i] : i \in DOMAIN s}

Ord(c) == CHOOSE i \in DOMAIN CodePointOrder : CodePointOrder[i] = c

\* str.isspace() on the characters of the model.
IsSpace(c) == c \in {" ", "\t"}

\* The character class [A-Za-z0-9_-] of safe_filename's pattern.
IsSafeChar(c) == c \in Range(UpperCase) \cup Range(LowerCase) \cup Range(DigitChars) \cup {"_", "-"}

\* str.lower(), one character.
LowerChar(c) ==
    IF c \in Range(UpperCase)
    THEN LowerCase[CHOOSE i \in DOMAIN UpperCase : UpperCase[i] = c]
    ELSE c

Lower(s) == [i \in DOMAIN s |-> LowerChar(s[i])]

\* str.strip(chars): drop the leading, then the trailing characters of `chars`.
RECURSIVE LStrip(_, _)
LStrip(s, chars) ==
    IF s # <<>> /\ Head(s) \in chars THEN LStrip(Tail(s), chars) ELSE s

RECURSIVE RStrip(_, _)
RStrip(s, chars) ==
    IF s # <<>> /\ s[Len(s)] \in chars THEN RStrip(SubSeq(s, 1, Len(s) - 1), chars) ELSE s

Strip(s, chars) == RStrip(LStrip(s, chars), chars)

StripSpace(s) == Strip(s, {" ", "\t"})

\* Lexicographic order of two texts by code point (str.__lt__).
RECURSIVE StrLess(_, _)
StrLess(a, b) ==
    IF b = <<>> THEN FALSE
    ELSE IF a = <<>> THEN TRUE
    ELSE IF Head(a) # Head(b) THEN Ord(Head(a)) < Ord(Head(b))
    ELSE StrLess(Tail(a), Tail(b))

\* sorted(set of texts)
RECURSIVE Sorted(_)
Sorted(S) ==
    IF S = {} THEN <<>>
    ELSE LET m == CHOOSE x \in S : \A y \in S \ {x} : StrLess(x, y)
         IN <<m>> \o Sorted(S \ {m})

\* sep.join(seq of texts)
RECURSIVE Join(_, _)
Join(parts, sep) ==
    IF parts = <<>> THEN <<>>
    ELSE IF Len(parts) = 1 THEN parts[1]
    ELSE parts[1] \o sep \o Join(Tail(parts), sep)

\* str(int) for a non-negative integer: its decimal digits.
RECURSIVE IntToStr(_)
IntToStr(n) ==
    IF n < 10 THEN <<DigitChars[n + 1]>>
    ELSE IntToStr(n \div 10) \o <<DigitChars[(n % 10) + 1]>>

\* All sequences over S of length at most n.
RECURSIVE SeqsUpTo(_, _)
SeqsUpTo(S, n) ==
    IF n = 0 THEN {<<>>}
    ELSE LET shorter == SeqsUpTo(S, n - 1)
         IN shorter \cup {Append(s, x) : s \in {t \in shorter : Len(t) = n - 1}, x \in S}

(***************************************************************************)
(* Cells of the spreadsheet. A cell is text (kind "str") or empty, which   *)
(* pandas reads as NaN (kind "nan"); str() of NaN is "nan".                *)
(***************************************************************************)
TextCell(s) == [kind |-> "str", s |-> s]
NanCell == [kind |-> "nan", s |-> <<>>]

PyStr(cell) == IF cell.kind = "nan" THEN <<"n", "a", "n">> ELSE cell.s

(***************************************************************************)
(* normalize_columns                                                       *)
(***************************************************************************)
ColTitle == <<"t", "i", "t", "l", "e">>
ColDate == <<"d", "a", "t", "e">>
ColTime == <<"t", "i", "m", "e">>
ColVenue == <<"v", "e", "n", "u", "e">>

REQUIRED_COLUMNS == {ColTitle, ColDate, ColTime, ColVenue}

MissingPrefix == <<"M", "i", "s", "s", "i", "n", "g", " ", "r", "e", "q", "u", "i", "r", "e",
                   "d", " ", "c", "o", "l", "u", "m", "n", "s", ":", " ">>

\* col.lower() alone, and col.strip().lower() as the mapping computes it.
NormalizeNoStrip(col) == Lower(col)
NormalizeHeader(col) == Lower(StripSpace(col))

\* mapping = {col: col.strip().lower() ...}; df.rename(columns=mapping)
RenameColumns(columns) == [i \in DOMAIN columns |-> NormalizeHeader(columns[i])]

MissingColumns(columns) == REQUIRED_COLUMNS \ Range(columns)

MissingMessage(missing) == MissingPrefix \o Join(Sorted(missing), <<",", " ">>)

(***************************************************************************)
(* safe_filename                                                           *)
(***************************************************************************)
\* re.sub(r"[^A-Za-z0-9_-]+", "_", title): scanning left to right, each
\* maximal run of characters outside the class becomes one underscore.
RECURSIVE ReSubUnsafe(_, _)
ReSubUnsafe(s, inRun) ==
    IF s = <<>> THEN <<>>
    ELSE IF IsSafeChar(Head(s)) THEN <<Head(s)>> \o ReSubUnsafe(Tail(s), FALSE)
    ELSE IF inRun THEN ReSubUnsafe(Tail(s), TRUE)
    ELSE <<"_">> \o ReSubUnsafe(Tail(s), TRUE)

\* The pattern without its "+": every character outside the class becomes an underscore.
ReSubEachChar(title) == [i \in DOMAIN title |-> IF IsSafeChar(title[i]) THEN title[i] ELSE "_"]

SafeStemEachChar(title) ==
    LET safe == Strip(ReSubEachChar(title), {"_"})
    IN IF safe = <<>> THEN <<"e", "v", "e", "n", "t">> ELSE safe

SafeStem(title) ==
    LET safe == Strip(ReSubUnsafe(title, FALSE), {"_"})
    IN IF safe = <<>> THEN <<"e", "v", "e", "n", "t">> ELSE safe

safe_filename_no_index(title, row_index) == SafeStem(title) \o <<".", "i", "c", "s">>

safe_filename(title, row_index) ==
    SafeStem(title) \o <<"_">> \o IntToStr(row_index) \o <<".", "i", "c", "s">>

(***************************************************************************)
(* The time cell. Its text is a sequence of lexemes: a clock time written  *)
(* as HH:MM, HH:MM:SS or HH:MM:SS.ffffff (f holds its numeric fields), a   *)
(* hyphen, a whitespace character, or a word that is no time at all.       *)
(***************************************************************************)
Clock(f) == [k |-> "clock", f |-> f]
Hy == [k |-> "hy", f |-> <<>>]
Ws == [k |-> "ws", f |-> <<>>]
Junk == [k |-> "junk", f |-> <<>>]

\* datetime.time
Time(h, m, sec, us) == [hour |-> h, minute |-> m, second |-> sec, microsecond |-> us]
NoTime == Time(0, 0, 0, 0)

\* The time a clock lexeme denotes: missing seconds and fraction default to 0.
ClockTime(f) ==
    Time(f[1], f[2], IF Len(f) >= 3 THEN f[3] ELSE 0, IF Len(f) >= 4 THEN f[4] ELSE 0)

ParseFail == [ok |-> FALSE, t |-> NoTime]

\* date_parser.parse(text).time(): dateutil's token loop. White space is
\* skipped; a hyphen before any time is skipped; a hyphen after a time starts
\* a numeric UTC offset, which must follow at once and be written HH:MM
\* (.time() then drops the offset); an unknown word is an error, and so is
\* a text that holds no time.
RECURSIVE ParseLoop(_, _, _)
ParseLoop(l, i, res) ==
    IF i > Len(l)
    THEN IF res = <<>> THEN ParseFail ELSE [ok |-> TRUE, t |-> res[1]]
    ELSE CASE l[i].k = "clock" -> ParseLoop(l, i + 1, <<ClockTime(l[i].f)>>)
           [] l[i].k = "ws" -> ParseLoop(l, i + 1, res)
           [] l[i].k = "hy" ->
                IF res = <<>> THEN ParseLoop(l, i + 1, res)
                ELSE IF i + 1 <= Len(l) /\ l[i + 1].k = "clock" /\ Len(l[i + 1].f) = 2
                     THEN ParseLoop(l, i + 2, res)
                     ELSE ParseFail
           [] OTHER -> ParseFail

ParseClock(text) == ParseLoop(text, 1, <<>>)

HyphenAt(s) == {i \in DOMAIN s : s[i].k = "hy"}

\* re.split(r"\s*-\s*", text, maxsplit): left is the number of splits still
\* allowed, -1 for no limit (maxsplit=0). The leftmost match starts at the
\* white space run before the first hyphen and ends after the run behind it.
RECURSIVE ReSplit(_, _)
ReSplit(s, left) ==
    IF left = 0 \/ HyphenAt(s) = {} THEN <<s>>
    ELSE LET h == CHOOSE i \in HyphenAt(s) : \A j \in HyphenAt(s) : i <= j
             b == CHOOSE i \in 1..h : /\ \A j \in i..(h - 1) : s[j].k = "ws"
                                      /\ (i = 1 \/ s[i - 1].k # "ws")
             e == CHOOSE i \in h..Len(s) : /\ \A j \in (h + 1)..i : s[j].k = "ws"
                                           /\ (i = Len(s) \/ s[i + 1].k # "ws")
         IN <<SubSeq(s, 1, b - 1)>>
            \o ReSplit(SubSeq(s, e + 1, Len(s)), IF left < 0 THEN left ELSE left - 1)

SplitEveryHyphen(text) == ReSplit(text, -1)
SplitTimeCell(text) == ReSplit(text, 1)

TimeRangeFail(err) == [ok |-> FALSE, err |-> err, start_time |-> NoTime, end_time |-> NoTime]

parse_time_range(value) ==
    LET parts == SplitTimeCell(value)
    IN IF Len(parts) # 2 THEN TimeRangeFail("TimeColumnFormat")
       ELSE LET st == ParseClock(parts[1])
                en == ParseClock(parts[2])
            IN IF ~st.ok \/ ~en.ok THEN TimeRangeFail("ParserError")
               ELSE [ok |-> TRUE, err |-> "", start_time |-> st.t, end_time |-> en.t]

(***************************************************************************)
(* Datetimes. A datetime is wall-clock fields plus its UTC offset in hours *)
(* when it is aware; the configured timezone is a UTC offset in hours.     *)
(***************************************************************************)
DateTime(d, h, m, sec, us, aware, off) ==
    [day |-> d, hour |-> h, minute |-> m, second |-> sec, microsecond |-> us,
     aware |-> aware, utcoff |-> off]
NoDateTime == DateTime(0, 0, 0, 0, 0, FALSE, 0)

\* datetime + timedelta(hours=n): wall-clock arithmetic, the day carries.
AddHours(dt, n) ==
    [dt EXCEPT !.hour = (dt.hour + n) % 24, !.day = dt.day + ((dt.hour + n) \div 24)]

\* a <= b for two datetimes of the same tzinfo: field by field.
DtFields(dt) == <<dt.day, dt.hour, dt.minute, dt.second, dt.microsecond>>

RECURSIVE TupleLess(_, _)
TupleLess(a, b) ==
    IF a = <<>> THEN FALSE
    ELSE IF Head(a) # Head(b) THEN Head(a) < Head(b)
    ELSE TupleLess(Tail(a), Tail(b))

DtLess(a, b) == TupleLess(DtFields(a), DtFields(b))
DtLessEq(a, b) == DtLess(a, b) \/ DtFields(a) = DtFields(b)

\* The date cell: a native datetime (kind "datetime"), or text (kind "text")
\* whose fields f are <<day>>, <<day, h, m, s>> or <<day, h, m, s, utcoff>>;
\* text without fields is no date.
NativeDate(dt) == [kind |-> "datetime", dt |-> dt, f |-> <<>>]
TextDate(f) == [kind |-> "text", dt |-> NoDateTime, f |-> f]

DateFail == [ok |-> FALSE, dt |-> NoDateTime]

\* date_parser.parse(str(value))
DateParserParse(f) ==
    IF f = <<>> THEN DateFail
    ELSE [ok |-> TRUE,
          dt |-> DateTime(f[1],
                          IF Len(f) >= 4 THEN f[2] ELSE 0,
                          IF Len(f) >= 4 THEN f[3] ELSE 0,
                          IF Len(f) >= 4 THEN f[4] ELSE 0,
                          0, Len(f) >= 5, IF Len(f) >= 5 THEN f[5] ELSE 0)]

\* tz.localize(dt) / dt.astimezone(tz)
Localize(dt, tz) == [dt EXCEPT !.aware = TRUE, !.utcoff = tz]
AsTimezone(dt, tz) == [AddHours(dt, tz - dt.utcoff) EXCEPT !.utcoff = tz]

parse_datetime(value, tz) ==
    LET got == IF value.kind = "datetime" THEN [ok |-> TRUE, dt |-> value.dt]
               ELSE DateParserParse(value.f)
    IN IF ~got.ok THEN DateFail
       ELSE [ok |-> TRUE,
             dt |-> IF ~got.dt.aware THEN Localize(got.dt, tz) ELSE AsTimezone(got.dt, tz)]

(***************************************************************************)
(* build_event                                                             *)
(***************************************************************************)
\* A row as row.to_dict() hands it over: the cells of the four required
\* columns (any further column is empty in every row of the model).
Row(title, date, time, venue) ==
    [title |-> title, date |-> date, time |-> time, venue |-> venue]

RowValue(row, key) ==
    CASE key = ColTitle -> row.title
      [] key = ColDate -> row.date
      [] key = ColTime -> row.time
      [] key = ColVenue -> row.venue
      [] OTHER -> NanCell

\* row_description: the header line, then one "- key: value" line per key.
row_description(row, keys) ==
    <<"Event details from spreadsheet:">>
    \o [i \in DOMAIN keys |-> <<"-", keys[i], RowValue(row, keys[i])>>]

\* title = str(row.get("title", "Event")).strip() or "Event"
EventTitleNoDefault(row) == StripSpace(PyStr(row.title))
EventTitle(row) ==
    LET title == StripSpace(PyStr(row.title))
    IN IF title = <<>> THEN <<"E", "v", "e", "n", "t">> ELSE title

\* dt.replace(hour=t.hour, minute=t.minute, second=t.second, microsecond=0)
ReplaceTimeZeroSeconds(dt, t) ==
    [dt EXCEPT !.hour = t.hour, !.minute = t.minute, !.second = 0, !.microsecond = 0]
ReplaceTime(dt, t) ==
    [dt EXCEPT !.hour = t.hour, !.minute = t.minute, !.second = t.second, !.microsecond = 0]

\* if dtend <= dtstart: dtend = dtstart + timedelta(hours=1)
EndOfEventStrict(dtstart, dtend) == IF DtLess(dtend, dtstart) THEN AddHours(dtstart, 1) ELSE dtend
EndOfEventTwoHours(dtstart, dtend) == IF DtLessEq(dtend, dtstart) THEN AddHours(dtstart, 2) ELSE dtend
EndOfEvent(dtstart, dtend) == IF DtLessEq(dtend, dtstart) THEN AddHours(dtstart, 1) ELSE dtend

\* timedelta(minutes=-abs(alert_minutes)), in minutes
Abs(n) == IF n < 0 THEN -n ELSE n
AlarmTriggerSigned(alert) == -alert
AlarmTrigger(alert) == -Abs(alert)

NoCalendar == [prodid |-> "", version |-> "", components |-> <<>>]

BuildFail(err) == [ok |-> FALSE, err |-> err, cal |-> NoCalendar]

build_event(row, keys, tz, alert) ==
    LET title == EventTitle(row)
        venue == StripSpace(PyStr(row.venue))
        start == parse_datetime(row.date, tz)
        range == parse_time_range(PyStr(row.time))
        dtstart == ReplaceTime(start.dt, range.start_time)
        dtend == EndOfEvent(dtstart, ReplaceTime(start.dt, range.end_time))
        alarm == [action |-> "DISPLAY",
                  description |-> "Leave now to arrive on time.",
                  trigger |-> AlarmTrigger(alert),
                  x_apple_local_default_alarm |-> TRUE,
                  x_apple_default_alarm |-> TRUE]
        event == [summary |-> title,
                  dtstart |-> dtstart,
                  dtend |-> dtend,
                  location |-> IF venue # <<>> THEN <<venue>> ELSE <<>>,
                  description |-> row_description(row, keys),
                  transp |-> "OPAQUE",
                  x_apple_travel_advisory_behavior |-> "AUTOMATIC",
                  x_apple_travel_duration |-> "PT0M",
                  components |-> <<alarm>>]
    IN IF ~start.ok THEN BuildFail("DateParserError")
       ELSE IF ~range.ok THEN BuildFail(range.err)
       ELSE [ok |-> TRUE, err |-> "",
             cal |-> [prodid |-> "-//Excel to ICS Converter//EN", version |-> "2.0",
                      components |-> <<event>>]]

(***************************************************************************)
(* The spreadsheets of the model.                                          *)
(***************************************************************************)
HeaderPool == << <<" ", "T", "i", "t", "l", "e", " ">>,
                 <<"D", "A", "T", "E">>,
                 <<"T", "i", "m", "e">>,
                 <<"v", "e", "n", "u", "e", "\t">>,
                 <<"N", "o", "t", "e", "s">> >>

\* The elements of s at the positions in I, in order.
RECURSIVE Pick(_, _)
Pick(s, I) ==
    IF I = {} THEN <<>>
    ELSE LET m == CHOOSE i \in I : \A j \in I : i <= j
         IN <<s[m]>> \o Pick(s, I \ {m})

ColumnLists == {Pick(HeaderPool, I) : I \in SUBSET DOMAIN HeaderPool}

GoodDate == NativeDate(DateTime(1, 0, 0, 0, 0, FALSE, 0))
BadDate == TextDate(<<>>)
GoodTime == TextCell(<<Clock(<<9, 0>>), Ws, Hy, Ws, Clock(<<10, 0>>)>>)
BadTime == TextCell(<<Clock(<<9, 0>>), Clock(<<10, 0>>)>>)
Hall == TextCell(<<"H", "a", "l", "l">>)

RowPool == {Row(TextCell(<<>>), GoodDate, GoodTime, Hall),
            Row(TextCell(<<" ", "\t">>), GoodDate, GoodTime, NanCell),
            Row(NanCell, GoodDate, GoodTime, TextCell(<<" ">>)),
            Row(TextCell(<<"a", " ", "b">>), GoodDate, GoodTime, Hall),
            Row(TextCell(<<"a", "_", "b">>), GoodDate, GoodTime, Hall),
            Row(TextCell(<<"!", "!">>), GoodDate, GoodTime, Hall),
            Row(TextCell(<<"a", " ", "b">>), BadDate, GoodTime, Hall),
            Row(TextCell(<<"a", "_", "1">>), GoodDate, BadTime, Hall)}

Frame(columns, rows) == [columns |-> columns, rows |-> rows]
NoFrame == Frame(<<>>, <<>>)
NoError == [kind |-> "", msg |-> <<>>, row |-> 0]

\* parse_args defaults
DefaultAlertMinutes == 30
UtcOffset == 0

(***************************************************************************)
(* main                                                                    *)
(***************************************************************************)
\* Every header row over a sheet of at most one row (with a required column
\* missing no row is ever read), and every complete header row over every
\* sheet of at most MaxRows rows.
Complete(columns) == \A i \in 1..4 : HeaderPool[i] \in Range(columns)

Spreadsheets ==
    {Frame(c, r) : c \in ColumnLists, r \in SeqsUpTo(RowPool, 1)}
    \cup {Frame(c, r) : c \in {l \in ColumnLists : Complete(l)}, r \in SeqsUpTo(RowPool, MaxRows)}

Init ==
    /\ excel \in Spreadsheets
    /\ df = NoFrame
    /\ tzone = UtcOffset
    /\ alert_minutes = DefaultAlertMinutes
    /\ pc = "read_excel"
    /\ idx = 0
    /\ outdir = FALSE
    /\ files = {}
    /\ wrote = <<>>
    /\ error = NoError
    /\ arg = <<>>
    /\ ret = <<>>

\* df = pd.read_excel(args.excel)
ReadExcel ==
    /\ pc = "read_excel"
    /\ df' = excel
    /\ pc' = "normalize"
    /\ UNCHANGED <<excel, tzone, alert_minutes, idx, outdir, files, wrote, error, arg, ret>>

\* df = normalize_columns(df)
NormalizeColumns ==
    /\ pc = "normalize"
    /\ LET renamed == RenameColumns(df.columns)
           missing == MissingColumns(renamed)
       IN IF missing # {}
          THEN /\ error' = [kind |-> "ValueError", msg |-> MissingMessage(missing), row |-> 0]
               /\ pc' = "error"
               /\ df' = df
          ELSE /\ df' = Frame(renamed, df.rows)
               /\ pc' = "mkdir"
               /\ error' = error
    /\ UNCHANGED <<excel, tzone, alert_minutes, idx, outdir, files, wrote, arg, ret>>

\* args.output.mkdir(parents=True, exist_ok=True)
MakeOutputDir ==
    /\ pc = "mkdir"
    /\ outdir' = TRUE
    /\ pc' = "loop"
    /\ UNCHANGED <<excel, df, tzone, alert_minutes, idx, files, wrote, error, arg, ret>>

\* open(output_path, "wb") and write: the file is created or replaced.
WriteFile(fs, name, data) == {f \in fs : f.name # name} \cup {[name |-> name, data |-> data]}

\* One iteration of the loop over df.iterrows(); onError is the program
\* position taken when build_event raises.
ProcessRowWith(onError) ==
    /\ pc = "loop"
    /\ idx < Len(df.rows)
    /\ LET row == df.rows[idx + 1]
           built == build_event(row, df.columns, tzone, alert_minutes)
           filename == safe_filename(PyStr(row.title), idx + 1)
       IN IF ~built.ok
          THEN /\ error' = [kind |-> built.err, msg |-> <<>>, row |-> idx + 1]
               /\ pc' = onError
               /\ idx' = IF onError = "error" THEN idx ELSE idx + 1
               /\ UNCHANGED <<files, wrote>>
          ELSE /\ files' = WriteFile(files, filename, built.cal)
               /\ wrote' = Append(wrote, filename)
               /\ idx' = idx + 1
               /\ UNCHANGED <<pc, error>>
    /\ UNCHANGED <<excel, df, tzone, alert_minutes, outdir, arg, ret>>

ProcessRowSkipping == ProcessRowWith("loop")
ProcessRow == ProcessRowWith("error")

\* The loop ends after the last row and main returns.
Finish ==
    /\ pc = "loop"
    /\ idx = Len(df.rows)
    /\ pc' = "done"
    /\ UNCHANGED <<excel, df, tzone, alert_minutes, idx, outdir, files, wrote, error, arg, ret>>

Next == ReadExcel \/ NormalizeColumns \/ MakeOutputDir \/ ProcessRow \/ Finish

Spec == Init /\ [][Next]_vars

(***************************************************************************)
(* The functions on their own: arg holds the arguments of one call, ret    *)
(* its result; the variables of main stay as they are before main runs.    *)
(***************************************************************************)
MainIdle ==
    /\ excel = NoFrame
    /\ df = NoFrame
    /\ tzone = UtcOffset
    /\ alert_minutes = DefaultAlertMinutes
    /\ idx = 0
    /\ outdir = FALSE
    /\ files = {}
    /\ wrote = <<>>
    /\ error = NoError

mainVars == <<excel, df, tzone, alert_minutes, idx, outdir, files, wrote, error>>

\* safe_filename(title, row_index)
NameAlphabet == {"a", "1", "_", "-", " ", "!"}
TeamSync == <<"T", "e", "a", "m", " ", "S", "y", "n", "c", ":", " ", "Q", "1", "!", "!">>
TitleInputs == SeqsUpTo(NameAlphabet, MaxTitleLen) \cup {TeamSync}

InitName ==
    /\ MainIdle
    /\ pc = "call"
    /\ arg \in [title : TitleInputs, row_index : 1..MaxIndex]
    /\ ret = <<>>

CallSafeFilename ==
    /\ pc = "call"
    /\ ret' = safe_filename(arg.title, arg.row_index)
    /\ pc' = "return"
    /\ UNCHANGED <<mainVars, arg>>

SpecName == InitName /\ [][CallSafeFilename]_vars

\* parse_time_range(value). Two clock lexemes are told apart by the parser
\* only when a hyphen stands between them, so a cell that reaches the parser
\* (one with a hyphen) has a hyphen between any two of its clock lexemes.
TimeAlphabet == {Clock(<<9, 0>>), Clock(<<10, 0, 45>>), Hy, Ws, Junk}

ClockAt(s) == {i \in DOMAIN s : s[i].k = "clock"}

Separated(s) ==
    \A i, j \in ClockAt(s) : i < j => \E h \in HyphenAt(s) : i < h /\ h < j

TimeInputs == {s \in SeqsUpTo(TimeAlphabet, MaxCellLen) : HyphenAt(s) = {} \/ Separated(s)}

InitTime ==
    /\ MainIdle
    /\ pc = "call"
    /\ arg \in TimeInputs
    /\ ret = <<>>

CallParseTimeRange ==
    /\ pc = "call"
    /\ ret' = parse_time_range(arg)
    /\ pc' = "return"
    /\ UNCHANGED <<mainVars, arg>>

SpecTime == InitTime /\ [][CallParseTimeRange]_vars

\* build_event(row, tz, alert_minutes)
EventClocks == {<<9, 0>>, <<10, 0>>, <<9, 0, 30>>, <<10, 0, 45>>, <<23, 30>>,
                <<9, 0, 30, 500000>>}

EventTimes == {TextCell(<<Clock(a), Ws, Hy, Ws, Clock(b)>>) : a, b \in EventClocks}
              \cup {BadTime}

EventDates == {NativeDate(DateTime(d, 0, 0, 0, 0, FALSE, 0)) : d \in 1..MaxDay}
              \cup {NativeDate(DateTime(d, 14, 30, 15, 250000, FALSE, 0)) : d \in 1..MaxDay}
              \cup {TextDate(<<d>>) : d \in 1..MaxDay}
              \cup {TextDate(<<d, 2, 0, 0, 0>>) : d \in 1..MaxDay}
              \cup {BadDate}

EventZones == {0, -5}

EventKeys == <<ColTitle, ColDate, ColTime, ColVenue>>

InitEvent ==
    /\ MainIdle
    /\ pc = "call"
    /\ arg \in [row : {Row(TextCell(<<"a", " ", "b">>), d, t, Hall) : d \in EventDates, t \in EventTimes},
                tz : EventZones,
                alert_minutes : (-MaxAlert)..MaxAlert]
    /\ ret = <<>>

CallBuildEvent ==
    /\ pc = "call"
    /\ ret' = build_event(arg.row, EventKeys, arg.tz, arg.alert_minutes)
    /\ pc' = "return"
    /\ UNCHANGED <<mainVars, arg>>

SpecEvent == InitEvent /\ [][CallBuildEvent]_vars

(***************************************************************************)
(* Properties of build_event, checked under SpecEvent.                     *)
(***************************************************************************)
Returned == pc = "return"

EventOf(r) == r.cal.components[1]
AlarmOf(r) == EventOf(r).components[1]

\* A datetime as whole seconds on one axis; the microsecond orders two
\* datetimes of the same second.
Seconds(dt) == ((dt.day * 24 + dt.hour) * 60 + dt.minute) * 60 + dt.second

Later(a, b) ==
    \/ Seconds(a) > Seconds(b)
    \/ Seconds(a) = Seconds(b) /\ a.microsecond > b.microsecond

\* The time cells of SpecEvent read "a - b": the lexemes of the start and the end.
StartLexeme == arg.row.time.s[1].f
EndLexeme == arg.row.time.s[5].f
LexSecond(f) == IF Len(f) >= 3 THEN f[3] ELSE 0
LexMicro(f) == IF Len(f) >= 4 THEN f[4] ELSE 0
LexOfDay(f) == (f[1] * 60 + f[2]) * 60 + LexSecond(f)

\* The candidate end in whole seconds: the event's day at the end time-of-day
\* (its microsecond is 0).
CandidateEnd == EventOf(ret).dtstart.day * 24 * 3600 + LexOfDay(EndLexeme)

\* The candidate end is strictly after the start.
CandidateAfterStart ==
    CandidateEnd > Seconds(EventOf(ret).dtstart)

\* C1: for every row on which build_event succeeds, the DTEND of the event
\* is strictly later than its DTSTART.
C1_EndAfterStart ==
    (Returned /\ ret.ok) => Later(EventOf(ret).dtend, EventOf(ret).dtstart)

\* A call where the end time-of-day is before the start and the forced end
\* falls on the next day.
C1_Witness ==
    /\ Returned /\ ret.ok
    /\ LexOfDay(EndLexeme) < LexOfDay(StartLexeme)
    /\ EventOf(ret).dtend.day = EventOf(ret).dtstart.day + 1

\* C2: when the candidate end is at or before the start, the emitted end is
\* exactly start + 1 hour; when it is after the start, the emitted end is the
\* candidate end unchanged.
C2_EndRule ==
    (Returned /\ ret.ok) =>
        LET start == EventOf(ret).dtstart
            end == EventOf(ret).dtend
        IN /\ start.microsecond = 0 /\ end.microsecond = 0
           /\ ~CandidateAfterStart => Seconds(end) = Seconds(start) + 3600
           /\ CandidateAfterStart => Seconds(end) = CandidateEnd

\* A call whose start and end time-of-day are the same.
C2_Witness ==
    /\ Returned /\ ret.ok
    /\ CandidateEnd = Seconds(EventOf(ret).dtstart)
    /\ LexSecond(StartLexeme) # 0

\* C9: the alarm trigger is -|a| minutes for every alert-minutes value a: it
\* is never positive, and a and -a give the same trigger.
C9_TriggerNeverAfterStart ==
    (Returned /\ ret.ok) =>
        /\ AlarmOf(ret).trigger <= 0
        /\ AlarmOf(ret).trigger \in {arg.alert_minutes, -arg.alert_minutes}

\* A call with a negative alert-minutes value.
C9_Witness == Returned /\ ret.ok /\ arg.alert_minutes < 0 /\ AlarmOf(ret).trigger < 0

\* C10 as stated: DTSTART and DTEND have seconds = 0 and microseconds = 0,
\* and their hour and minute equal those of the parsed times (for DTEND, of
\* the parsed end when it is the end that is emitted).
C10_SecondsZeroed ==
    (Returned /\ ret.ok) =>
        /\ EventOf(ret).dtstart.second = 0 /\ EventOf(ret).dtstart.microsecond = 0
        /\ EventOf(ret).dtend.second = 0 /\ EventOf(ret).dtend.microsecond = 0
        /\ EventOf(ret).dtstart.hour = StartLexeme[1] /\ EventOf(ret).dtstart.minute = StartLexeme[2]
        /\ CandidateAfterStart =>
             EventOf(ret).dtend.hour = EndLexeme[1] /\ EventOf(ret).dtend.minute = EndLexeme[2]

\* C10 amended: only the microseconds are zeroed. DTSTART has the hour, the
\* minute and the second of the parsed start; DTEND has the hour, the minute
\* and the second of the parsed end when the candidate end is after the
\* start, and is the start plus one hour (same minute and second) otherwise.
C10_SecondsKept ==
    (Returned /\ ret.ok) =>
        LET s == EventOf(ret).dtstart
            e == EventOf(ret).dtend
        IN /\ s.microsecond = 0 /\ e.microsecond = 0
           /\ <<s.hour, s.minute, s.second>> = <<StartLexeme[1], StartLexeme[2], LexSecond(StartLexeme)>>
           /\ CandidateAfterStart =>
                <<e.hour, e.minute, e.second>> = <<EndLexeme[1], EndLexeme[2], LexSecond(EndLexeme)>>
           /\ ~CandidateAfterStart =>
                <<e.hour, e.minute, e.second>> = <<(s.hour + 1) % 24, s.minute, s.second>>

\* A call whose parsed times carry seconds and a fraction of a second.
C10_Witness ==
    /\ Returned /\ ret.ok
    /\ LexMicro(StartLexeme) # 0
    /\ EventOf(ret).dtstart.second = 30
    /\ EventOf(ret).dtend.second = 45

(***************************************************************************)
(* Properties of parse_time_range, checked under SpecTime.                 *)
(***************************************************************************)
FirstHyphen(s) == CHOOSE h \in HyphenAt(s) : \A j \in HyphenAt(s) : h <= j
BeforeFirstHyphen(s) == SubSeq(s, 1, FirstHyphen(s) - 1)
AfterFirstHyphen(s) == SubSeq(s, FirstHyphen(s) + 1, Len(s))

\* C7 as stated: the call fails whenever the cell does not consist of exactly
\* two hyphen-separated parts, that is when it holds no hyphen and also when
\* it holds two or more hyphens.
C7_FailsUnlessOneHyphen ==
    (Returned /\ Cardinality(HyphenAt(arg)) # 1) => ~ret.ok

\* C7 amended: the cell is split at its first hyphen only. The call fails
\* with the time-column error exactly when the cell holds no hyphen; when it
\* holds one or more, the text before the first hyphen is the start part and
\* all the text after it the end part, and the call succeeds exactly when
\* both parts parse as clock times, returning these two times in order.
C7_SplitAtFirstHyphen ==
    Returned =>
        /\ (ret.err = "TimeColumnFormat") <=> (HyphenAt(arg) = {})
        /\ HyphenAt(arg) = {} => ~ret.ok
        /\ HyphenAt(arg) # {} =>
             LET st == ParseClock(BeforeFirstHyphen(arg))
                 en == ParseClock(AfterFirstHyphen(arg))
             IN /\ ret.ok <=> (st.ok /\ en.ok)
                /\ ret.ok => ret.start_time = st.t /\ ret.end_time = en.t

\* A cell with two hyphens on which the call succeeds: "10:00:45-9:00-9:00".
C7_Witness ==
    /\ Returned /\ ret.ok
    /\ Cardinality(HyphenAt(arg)) = 2
    /\ Cardinality(ClockAt(arg)) = 3
    /\ ret.start_time = Time(10, 0, 45, 0)
    /\ ret.end_time = Time(9, 0, 0, 0)

(***************************************************************************)
(* Properties of safe_filename, checked under SpecNames: the calls of      *)
(* SpecName together with the runs of main.                                *)
(***************************************************************************)
SpecNames == (Init \/ InitName) /\ [][Next \/ CallSafeFilename]_vars

\* The positions of the title that yield a character of the result: every
\* character of the class, and the first character of every run outside it.
KeptAt(t) == {i \in DOMAIN t : IsSafeChar(t[i]) \/ i = 1 \/ IsSafeChar(t[i - 1])}

RunsReplaced(t) ==
    LET at == Pick([i \in DOMAIN t |-> i], KeptAt(t))
    IN [j \in DOMAIN at |-> IF IsSafeChar(t[at[j]]) THEN t[at[j]] ELSE "_"]

\* The stem of the file name as the claim states it.
StatedStem(t) ==
    LET r == RunsReplaced(t)
        core == {j \in DOMAIN r : r[j] # "_"}
    IN IF core = {} THEN <<"e", "v", "e", "n", "t">>
       ELSE SubSeq(r, CHOOSE a \in core : \A j \in core : a <= j,
                      CHOOSE b \in core : \A j \in core : b >= j)

\* The number a text of decimal digits denotes.
RECURSIVE DecimalValue(_)
DecimalValue(d) ==
    IF d = <<>> THEN 0
    ELSE 10 * DecimalValue(SubSeq(d, 1, Len(d) - 1))
         + ((CHOOSE i \in DOMAIN DigitChars : DigitChars[i] = d[Len(d)]) - 1)

\* name is stem + "_" + i + ".ics", i written in decimal.
IsStatedName(name, title, i) ==
    LET stem == StatedStem(title)
        digits == SubSeq(name, Len(stem) + 2, Len(name) - 4)
    IN /\ Len(name) >= Len(stem) + 6
       /\ SubSeq(name, 1, Len(stem)) = stem
       /\ name[Len(stem) + 1] = "_"
       /\ SubSeq(name, Len(name) - 3, Len(name)) = <<".", "i", "c", "s">>
       /\ \A j \in DOMAIN digits : digits[j] \in Range(DigitChars)
       /\ digits[1] # "0"
       /\ DecimalValue(digits) = i

\* C5: safe_filename returns stem + "_" + i + ".ics", the stem being the title
\* with every maximal run of characters outside [A-Za-z0-9_-] replaced by one
\* underscore and the leading and trailing underscores removed, or "event" if
\* nothing is left; main passes the 1-based position of the row as i.
C5_FilenameFormat ==
    /\ Returned => IsStatedName(ret, arg.title, arg.row_index)
    /\ \A k \in DOMAIN wrote : IsStatedName(wrote[k], PyStr(excel.rows[k].title), k)

\* The call of the example: "Team Sync: Q1!!" at row index 3.
C5_Witness ==
    /\ Returned
    /\ arg.title = TeamSync /\ arg.row_index = 3
    /\ ret = <<"T", "e", "a", "m", "_", "S", "y", "n", "c", "_", "Q", "1", "_", "3", ".", "i", "c", "s">>

(***************************************************************************)
(* Properties of main, checked under Spec.                                 *)
(***************************************************************************)
\* Header h counts as column name: name is h without the white space around
\* it, letter case ignored.
CountsAs(h, name) ==
    LET inked == {i \in DOMAIN h : ~IsSpace(h[i])}
    IN /\ inked # {}
       /\ LET a == CHOOSE i \in inked : \A j \in inked : i <= j
              b == CHOOSE i \in inked : \A j \in inked : i >= j
          IN /\ b - a + 1 = Len(name)
             /\ \A i \in DOMAIN name : LowerChar(h[a + i - 1]) = name[i]

Absent(name) == \A i \in DOMAIN excel.columns : ~CountsAs(excel.columns[i], name)

\* The absent required columns in alphabetical order.
AbsentColumns == SelectSeq(<<ColDate, ColTime, ColTitle, ColVenue>>, Absent)

\* C3: if a required column is absent after trimming and lowercasing the
\* headers, the run fails with one error naming all absent columns in
\* alphabetical order, before any row is transformed, before the output
\* directory is created and before any file is written; if none is absent,
\* no validation error is raised.
C3_MissingColumns ==
    LET absent == AbsentColumns
    IN /\ absent # <<>> =>
            /\ pc \in {"read_excel", "normalize", "error"}
            /\ outdir = FALSE /\ files = {} /\ wrote = <<>> /\ idx = 0
            /\ pc = "error" =>
                 /\ error.kind = "ValueError"
                 /\ error.row = 0
                 /\ error.msg = MissingPrefix \o Join(absent, <<",", " ">>)
       /\ absent = <<>> =>
            /\ error.kind # "ValueError"
            /\ pc \notin {"read_excel", "normalize"} => REQUIRED_COLUMNS \subseteq Range(df.columns)

\* A run over a spreadsheet with rows that lacks the columns date and title.
C3_Witness ==
    /\ pc = "error"
    /\ AbsentColumns = <<ColDate, ColTitle>>
    /\ Len(excel.rows) >= 1
    /\ error.msg = MissingPrefix \o <<"d", "a", "t", "e", ",", " ", "t", "i", "t", "l", "e">>

\* The title cell reads as empty or as white space only.
BlankTitle(row) == \A i \in DOMAIN PyStr(row.title) : IsSpace(PyStr(row.title)[i])

\* C4 as stated: the file written for a row with a blank title at 1-based
\* index k is named "Event_k.ics".
C4_BlankTitleFileEvent ==
    \A k \in DOMAIN wrote :
        BlankTitle(excel.rows[k]) =>
            wrote[k] = <<"E", "v", "e", "n", "t", "_">> \o IntToStr(k) \o <<".", "i", "c", "s">>

\* C4 amended: for a row with a blank title at 1-based index k the SUMMARY
\* of the event is "Event", and the file is named "event_k.ics": the file
\* name is derived from the title cell itself, not from the defaulted title.
C4_BlankTitleFileLowercase ==
    \A k \in DOMAIN wrote :
        BlankTitle(excel.rows[k]) =>
            /\ wrote[k] = <<"e", "v", "e", "n", "t", "_">> \o IntToStr(k) \o <<".", "i", "c", "s">>
            /\ \E f \in files :
                 /\ f.name = wrote[k]
                 /\ f.data.components[1].summary = <<"E", "v", "e", "n", "t">>

\* The second row has a title of white space only and its file is written.
C4_Witness ==
    /\ Len(wrote) >= 2
    /\ PyStr(excel.rows[2].title) = <<" ", "\t">>
    /\ \E f \in files : f.name = wrote[2]

\* The date cell or the time cell of the row cannot be parsed.
Unparseable(row) ==
    \/ row.date.kind = "text" /\ row.date.f = <<>>
    \/ ~parse_time_range(PyStr(row.time)).ok

UnparseableAt == {k \in DOMAIN excel.rows : Unparseable(excel.rows[k])}
FirstUnparseable == CHOOSE k \in UnparseableAt : \A j \in UnparseableAt : k <= j

\* The file of row k, complete.
FileOfRow(k) ==
    [name |-> safe_filename(PyStr(excel.rows[k].title), k),
     data |-> build_event(excel.rows[k], df.columns, tzone, alert_minutes).cal]

\* C6: rows are processed in order and the run is fail-fast: if row k is the
\* first row whose date or time cell cannot be parsed, the run ends in an
\* error at row k with exactly the files of rows 1..k-1 written, each
\* complete; no file is written for row k or a later row, and no row after
\* the failing one is transformed.
C6_FailFast ==
    /\ pc = "done" => UnparseableAt = {}
    /\ \A k \in DOMAIN wrote : wrote[k] = safe_filename(PyStr(excel.rows[k].title), k)
    /\ UnparseableAt # {} =>
         /\ idx < FirstUnparseable
         /\ Len(wrote) < FirstUnparseable
    /\ error.row > 0 =>
         /\ pc = "error"
         /\ error.kind \in {"DateParserError", "TimeColumnFormat", "ParserError"}
         /\ error.row = FirstUnparseable
         /\ idx = error.row - 1
         /\ files = {FileOfRow(j) : j \in 1..(error.row - 1)}
         /\ Cardinality(files) = error.row - 1

\* A run that fails at its second row, with a third row behind it.
C6_Witness ==
    /\ pc = "error"
    /\ error.row = 2
    /\ Len(excel.rows) = 3
    /\ Cardinality(files) = 1

\* C8: after a run without error over n rows exactly n files are written, one
\* per row, under pairwise distinct names whatever the titles are, so that no
\* write replaces the file of another row; each file holds one calendar with
\* exactly one event and exactly one alarm.
C8_OneFilePerRow ==
    /\ Cardinality(files) = idx
    /\ Len(wrote) = idx
    /\ \A i, j \in DOMAIN wrote : i # j => wrote[i] # wrote[j]
    /\ \A f \in files :
         /\ Len(f.data.components) = 1
         /\ Len(f.data.components[1].components) = 1
    /\ pc = "done" =>
         /\ idx = Len(excel.rows)
         /\ {f.name : f \in files} = Range(wrote)

\* A finished run over rows with equal titles, and over rows with different
\* titles of the same stem.
C8_Witness ==
    /\ pc = "done"
    /\ Cardinality(files) = 3
    /\ \/ excel.rows[1].title = excel.rows[2].title
       \/ /\ excel.rows[1].title # excel.rows[2].title
          /\ SafeStem(PyStr(excel.rows[1].title)) = SafeStem(PyStr(excel.rows[2].title))
    /\ SafeStem(PyStr(excel.rows[3].title)) = <<"e", "v", "e", "n", "t">>

====
